---------------------------- MODULE Spec2Model ----------------------------
(***************************************************************************)
(* Background agents: the execution engine of one agent instance           *)
(* (BaseAgent: start / stop / execute driven by a node-cron trigger) and   *)
(* the AgentManager that owns the map of instances.                        *)
(*                                                                         *)
(* JavaScript runs one callback at a time, so every action below is one    *)
(* run-to-completion slice of a handler: it ends where the handler         *)
(* suspends on real I/O (the only such point in BaseAgent is the agent     *)
(* body awaited at `await this.run()`).  Continuations that follow a       *)
(* settled promise without further I/O (the catch block of execute(),      *)
(* the default handleError, the line after `await this.execute()` in       *)
(* start()) run in the same slice as the end of the body.                  *)
(***************************************************************************)
EXTENDS Naturals, Integers, Sequences, FiniteSets, TLC

(* ------------------------------ bounds -------------------------------- *)
\* instances that may be constructed in one behaviour
MaxInst == 2
\* cap on the executions begun in one behaviour, all instances together
MaxRuns == 3
\* cap on the executions that are in flight together, all instances together
MaxInFlight == 2

\* DataProcessorAgent: `config.batchSize || 100`
DefaultBatchSize == 100
\* longest file list getFilesToProcess() returns
MaxFiles == 3
\* FileWatcherAgent.maxEvents, the length the event log is cut to (1000 in
\* the constructor), scaled down
MaxEvents == 2
\* file events delivered in one behaviour
MaxSeen == 4
\* chokidar watchers created in one behaviour
MaxOpened == 4
\* monitoring cycles (calls of ApiMonitorAgent.run) in one behaviour
MaxCycles == 4

\* ApiMonitorAgent: `this.alertThreshold = 3`
AlertThreshold == 3

Inst == 1..MaxInst
NoInst == 0

\* keys of the manager's map (config.id)
AgentIds == {"monitor-agent", "worker"}

\* what the run() body of an instance does on every invocation
BodyKinds == {"ok", "throws"}

\* who called execute(): the cron callback, start() of an unscheduled
\* instance, or a manual run
Origins == {"cron", "start", "manual"}

Null == "null"

VARIABLES
  agentConfigs,    \* the list getAgentConfigs() returns
  agents,          \* AgentManager.agents : id -> instance (NoInst = absent)
  managerIsRunning,\* AgentManager.isRunning
  nInst,           \* number of BaseAgent objects constructed so far
  id,              \* BaseAgent.id
  schedule,        \* BaseAgent.schedule, TRUE = a cron expression is set
  body,            \* behaviour of the subclass's run()
  stopFails,       \* TRUE when stop() of the instance raises once Running
  isRunning,       \* BaseAgent.isRunning
  task,            \* BaseAgent.task : Null or the cron task handle
  lastRun,         \* BaseAgent.lastRun : Null or the ordinal of the run
  runCount,        \* BaseAgent.runCount
  errorCount,      \* BaseAgent.errorCount
  activeTriggers,  \* node-cron side: tasks of the instance started, not stopped
  inflight,        \* executions awaiting run(), per origin
  lastOp,          \* the last operation performed and how it ended
  retry,           \* one call of BaseAgent.retry(operation, maxRetries, delay)
  configFile,      \* src/config/agents.json, as the Dashboard reads and writes it
  requests,        \* the configuration updates the Dashboard is serving
  registry,        \* the Agent Registry: its catalog and its copy of the store
  processor,       \* DataProcessorAgent: its own fields and the position of run()
  watcher,         \* FileWatcherAgent: its own fields and the chokidar watchers
  monitor          \* ApiMonitorAgent: its own fields and the checks in flight

agentVars == <<id, schedule, body, stopFails, isRunning, task, lastRun, runCount,
               errorCount, activeTriggers, inflight>>
managerVars == <<agentConfigs, agents, managerIsRunning, nInst>>
subVars == <<processor, watcher, monitor>>
libVars == <<retry, configFile, requests, registry, subVars>>
vars == <<agentConfigs, agents, managerIsRunning, nInst, id, schedule, body,
          stopFails, isRunning, task, lastRun, runCount, errorCount,
          activeTriggers, inflight, lastOp, retry, configFile, requests,
          registry, processor, watcher, monitor>>

Op(op, i, origin, threw, out) ==
  [op |-> op, inst |-> i, origin |-> origin, threw |-> threw, out |-> out]

NoFlight == [o \in Origins |-> 0]

InFlight(i) == inflight[i]["cron"] + inflight[i]["start"] + inflight[i]["manual"]

Constructed == 1..nInst

RECURSIVE SumUpTo(_, _)
SumUpTo(f, n) == IF n = 0 THEN 0 ELSE f[n] + SumUpTo(f, n - 1)

TotalRuns == SumUpTo(runCount, MaxInst)

TotalInFlight == SumUpTo([i \in Inst |-> InFlight(i)], MaxInst)

(* --------------------------- configurations --------------------------- *)
Config(a, s, b) ==
  [id |-> a, schedule |-> s, body |-> b, kind |-> "object", stopFails |-> FALSE]

\* a null entry of the list (a hole in the file the list is loaded from)
NullConfig ==
  [id |-> Null, schedule |-> FALSE, body |-> "ok", kind |-> "null",
   stopFails |-> FALSE]

\* a well-formed configuration for which the construction fails: the
\* constructor builds a Logger, whose file transports open logs/*.log
Unbuildable(a) ==
  [id |-> a, schedule |-> FALSE, body |-> "ok", kind |-> "unbuildable",
   stopFails |-> FALSE]

\* a configuration of an agent whose stop() raises (stop() is overridable,
\* and it calls into the trigger library)
StopFailing(a, s, b) ==
  [id |-> a, schedule |-> s, body |-> b, kind |-> "object", stopFails |-> TRUE]

\* the literal list of AgentManager.getAgentConfigs(): one scheduled
\* BaseAgent, whose run() is the base class's, which throws
DefaultConfigs == << Config("monitor-agent", TRUE, "throws") >>

\* getAgentConfigs() and createAgent() are the manager's extension points
\* ("would load from files", "would use a registry"): the lists a deployment
\* can return, the literal one included
ConfigLists ==
  { DefaultConfigs }
  \cup
  { << Config("monitor-agent", s, b) >> : s \in BOOLEAN, b \in BodyKinds }
  \cup
  { << Config("monitor-agent", TRUE, b1), Config("worker", FALSE, b2) >> :
       b1 \in BodyKinds, b2 \in BodyKinds }
  \cup
  { << NullConfig, Config("worker", FALSE, "ok") >>,
    << Unbuildable("monitor-agent"), Config("worker", FALSE, "ok") >>,
    << StopFailing("monitor-agent", TRUE, "ok"), Config("worker", FALSE, "ok") >> }

(* ------------------------------ BaseAgent ----------------------------- *)
\* constructor: the field values of a fresh instance
FreshFields ==
  /\ isRunning = [i \in Inst |-> FALSE]
  /\ task = [i \in Inst |-> Null]
  /\ lastRun = [i \in Inst |-> Null]
  /\ runCount = [i \in Inst |-> 0]
  /\ errorCount = [i \in Inst |-> 0]
  /\ activeTriggers = [i \in Inst |-> 0]
  /\ inflight = [i \in Inst |-> NoFlight]

\* start(): `if (this.isRunning) return`
StartIsNoop_never(i) == FALSE

StartIsNoop(i) == isRunning[i]

\* stop(): `if (!this.isRunning) return`
StopIsNoop_never(i) == FALSE

StopIsNoop(i) == ~isRunning[i]

\* stop(): `if (this.task) { this.task.stop(); ... }`: the triggers of the
\* instance that are still active once stop() has run
TriggersAfterStop_leak(i) == activeTriggers[i]

TriggersAfterStop(i) ==
  IF task[i] # Null THEN activeTriggers[i] - 1 ELSE activeTriggers[i]

\* execute(): the catch block counts the error, awaits handleError (the
\* default logs and returns) and ends without rethrowing
ExecuteRethrows_rethrow(threw) == threw

ExecuteRethrows(threw) == FALSE

\* execute(): `this.errorCount++` is in the catch block only
ErrorIncrement_always(threw) == 1

ErrorIncrement(threw) == IF threw THEN 1 ELSE 0

\* execute(): `await this.handleError(error)` is in the catch block only
HandleErrorCalls(threw) == IF threw THEN 1 ELSE 0

\* how an execute() ended, and how many times it invoked handleError
OpEnd(i, origin, threw, out, handled) ==
  [op |-> "executeEnd", inst |-> i, origin |-> origin, threw |-> threw,
   out |-> out, handled |-> handled]

\* execute() up to `await this.run()`: lastRun, runCount++, body started
BeginExecute(i, origin) ==
  /\ TotalRuns < MaxRuns
  /\ TotalInFlight < MaxInFlight
  /\ lastRun' = [lastRun EXCEPT ![i] = runCount[i] + 1]
  /\ runCount' = [runCount EXCEPT ![i] = runCount[i] + 1]
  /\ inflight' = [inflight EXCEPT ![i][origin] = @ + 1]

\* start()
Start(i) ==
  /\ i \in Constructed
  /\ IF StartIsNoop(i)
       THEN /\ lastOp' = Op("start", i, "none", FALSE, "noop")
            /\ UNCHANGED <<agentVars, managerVars, libVars>>
       ELSE IF schedule[i]
         THEN /\ task' = [task EXCEPT ![i] = "cron"]
              /\ activeTriggers' = [activeTriggers EXCEPT ![i] = @ + 1]
              /\ isRunning' = [isRunning EXCEPT ![i] = TRUE]
              /\ lastOp' = Op("start", i, "none", FALSE, "started")
              /\ UNCHANGED <<id, schedule, body, stopFails, lastRun, runCount,
                             errorCount, inflight, managerVars, libVars>>
         ELSE /\ BeginExecute(i, "start")
              /\ lastOp' = Op("start", i, "start", FALSE, "awaiting")
              /\ UNCHANGED <<id, schedule, body, stopFails, isRunning, task, errorCount,
                             activeTriggers, managerVars, libVars>>

\* stop()
Stop(i) ==
  /\ i \in Constructed
  /\ IF StopIsNoop(i)
       THEN /\ lastOp' = Op("stop", i, "none", FALSE, "noop")
            /\ UNCHANGED <<agentVars, managerVars, libVars>>
       ELSE IF stopFails[i]
         THEN /\ lastOp' = Op("stop", i, "none", TRUE, "raised")
              /\ UNCHANGED <<agentVars, managerVars, libVars>>
       ELSE /\ activeTriggers' = [activeTriggers EXCEPT ![i] = TriggersAfterStop(i)]
            /\ task' = [task EXCEPT ![i] = Null]
            /\ isRunning' = [isRunning EXCEPT ![i] = FALSE]
            /\ lastOp' = Op("stop", i, "none", FALSE, "stopped")
            /\ UNCHANGED <<id, schedule, body, stopFails, lastRun, runCount, errorCount,
                           inflight, managerVars, libVars>>

\* the cron callback `async () => { await this.execute(); }`: it runs when
\* a started, not stopped task of the instance reaches its time
Fire(i) ==
  /\ i \in Constructed
  /\ activeTriggers[i] > 0
  /\ BeginExecute(i, "cron")
  /\ lastOp' = Op("fire", i, "cron", FALSE, "awaiting")
  /\ UNCHANGED <<id, schedule, body, stopFails, isRunning, task, errorCount,
                 activeTriggers, managerVars, libVars>>

\* a direct call of execute() on the instance (a manual run)
Execute(i) ==
  /\ i \in Constructed
  /\ BeginExecute(i, "manual")
  /\ lastOp' = Op("execute", i, "manual", FALSE, "awaiting")
  /\ UNCHANGED <<id, schedule, body, stopFails, isRunning, task, errorCount,
                 activeTriggers, managerVars, libVars>>

\* the awaited run() settles: the rest of execute(), and the continuation of
\* the caller that awaited it
ExecuteEnd(i, origin) ==
  /\ i \in Constructed
  /\ inflight[i][origin] > 0
  /\ LET threw == (body[i] = "throws")
         rethrown == ExecuteRethrows(threw)
     IN /\ inflight' = [inflight EXCEPT ![i][origin] = @ - 1]
        /\ errorCount' = [errorCount EXCEPT ![i] = @ + ErrorIncrement(threw)]
        /\ isRunning' = [isRunning EXCEPT ![i] =
                           IF origin = "start" /\ ~rethrown THEN TRUE ELSE @]
        /\ lastOp' = OpEnd(i, origin, threw,
                           IF rethrown THEN "rejected" ELSE "resolved",
                           HandleErrorCalls(threw))
  /\ UNCHANGED <<id, schedule, body, stopFails, task, lastRun, runCount, activeTriggers,
                 managerVars, libVars>>

(* ----------------------------- AgentManager --------------------------- *)
Tracked == { a \in AgentIds : agents[a] # NoInst }

TrackedInst == { agents[a] : a \in Tracked }

\* initialize()
Initialize ==
  /\ managerIsRunning' = TRUE
  /\ lastOp' = Op("initialize", NoInst, "none", FALSE, "ok")
  /\ UNCHANGED <<agentConfigs, agents, nInst, agentVars, libVars>>

\* createAgent(config) = new BaseAgent(config): it throws on a null entry
\* (config.id of null) and when the Logger cannot be built
CreateAgentThrows(c) == c.kind # "object"

\* the catch block of loadAgents formats `${config.id}`: on a null entry
\* that throws again, out of the loop and out of loadAgents
CatchThrows_never(c) == FALSE

CatchThrows(c) == c.kind = "null"

\* position of the first configuration at which loadAgents() is left by an
\* exception, Len + 1 if it runs to the end
FirstAbort ==
  LET ks == { k \in 1..Len(agentConfigs) :
                CreateAgentThrows(agentConfigs[k]) /\ CatchThrows(agentConfigs[k]) }
  IN IF ks = {} THEN Len(agentConfigs) + 1
     ELSE CHOOSE k \in ks : \A j \in ks : k <= j

\* the configurations for which an instance is constructed and stored
Built ==
  { k \in 1..(FirstAbort - 1) : ~CreateAgentThrows(agentConfigs[k]) }

\* the instance constructed for configuration k of Built
InstOf(k) == nInst + Cardinality({ j \in Built : j <= k })

\* the configuration from which instance i is constructed by this call
ConfigOfInst(i) == CHOOSE k \in Built : InstOf(k) = i

\* index of the last built configuration that carries id a, 0 if none
\* (Map.set: a later entry with the same key replaces the earlier one)
LastConfigOf(a) ==
  LET ks == { k \in Built : agentConfigs[k].id = a }
  IN IF ks = {} THEN 0 ELSE CHOOSE k \in ks : \A j \in ks : j <= k

\* loadAgents(): for each configuration, createAgent(config) constructs a
\* BaseAgent and agents.set(config.id, agent) stores it; nothing else
LoadAgents ==
  /\ Len(agentConfigs) > 0
  /\ nInst + Cardinality(Built) <= MaxInst
  /\ nInst' = nInst + Cardinality(Built)
  /\ id' = [i \in Inst |->
              IF i > nInst /\ i <= nInst' THEN agentConfigs[ConfigOfInst(i)].id
              ELSE id[i]]
  /\ schedule' = [i \in Inst |->
              IF i > nInst /\ i <= nInst' THEN agentConfigs[ConfigOfInst(i)].schedule
              ELSE schedule[i]]
  /\ body' = [i \in Inst |->
              IF i > nInst /\ i <= nInst' THEN agentConfigs[ConfigOfInst(i)].body
              ELSE body[i]]
  /\ stopFails' = [i \in Inst |->
              IF i > nInst /\ i <= nInst' THEN agentConfigs[ConfigOfInst(i)].stopFails
              ELSE stopFails[i]]
  /\ agents' = [a \in AgentIds |->
              IF LastConfigOf(a) # 0 THEN InstOf(LastConfigOf(a))
              ELSE agents[a]]
  /\ lastOp' = Op("loadAgents", NoInst, "none", FirstAbort <= Len(agentConfigs),
                  IF FirstAbort <= Len(agentConfigs) THEN "raised" ELSE "ok")
  /\ UNCHANGED <<agentConfigs, managerIsRunning, isRunning, task, lastRun,
                 runCount, errorCount, activeTriggers, inflight, libVars>>

\* startAgent / stopAgent: `if (agent) { ... }` with no else branch: an
\* unknown id falls through and the call resolves
AbsentOutcome_raises == "raised"

AbsentOutcome == "absent"

\* startAgent(agentId)
StartAgent(a) ==
  IF agents[a] = NoInst
    THEN /\ lastOp' = Op("startAgent", NoInst, "none", FALSE, AbsentOutcome)
         /\ UNCHANGED <<agentVars, managerVars, libVars>>
    ELSE Start(agents[a])

\* stopAgent(agentId)
StopAgent(a) ==
  IF agents[a] = NoInst
    THEN /\ lastOp' = Op("stopAgent", NoInst, "none", FALSE, AbsentOutcome)
         /\ UNCHANGED <<agentVars, managerVars, libVars>>
    ELSE Stop(agents[a])

\* runAgentNow(agentId): NotFound for an unknown id, otherwise it awaits
\* the instance's execute() and passes on whatever execute() raises
RunAgentNow(a) ==
  IF agents[a] = NoInst
    THEN /\ lastOp' = Op("runAgentNow", NoInst, "manual", FALSE, "notfound")
         /\ UNCHANGED <<agentVars, managerVars, libVars>>
    ELSE /\ BeginExecute(agents[a], "manual")
         /\ lastOp' = Op("runAgentNow", agents[a], "manual", FALSE, "awaiting")
         /\ UNCHANGED <<id, schedule, body, stopFails, isRunning, task, errorCount,
                        activeTriggers, managerVars, libVars>>

\* POST /api/agents/:id/run: 200 when runAgentNow resolves, 500 with the
\* error's message when it rejects
RunRouteStatus(out) == IF out \in {"rejected", "notfound"} THEN 500 ELSE 200

\* POST /api/agents/:id/start and /stop: 200 {success: true} when the
\* manager's call resolves, 500 when it rejects
StartStopRouteStatus(out) == IF out = "raised" THEN 500 ELSE 200

\* GET /api/agents/:id: `if (agent)` on what getAgentStatus(id) returned,
\* which is null exactly when the id is not a key of the map
GetRouteStatus(a) == IF agents[a] # NoInst THEN 200 ELSE 404

\* BaseAgent.getStatus(): the projection of the instance (type, which no
\* operation reads or writes, is left out)
GetStatus_swapped(i) ==
  [id |-> id[i], isRunning |-> isRunning[i], lastRun |-> lastRun[i],
   runCount |-> errorCount[i], errorCount |-> runCount[i],
   schedule |-> schedule[i]]

GetStatus(i) ==
  [id |-> id[i], isRunning |-> isRunning[i], lastRun |-> lastRun[i],
   runCount |-> runCount[i], errorCount |-> errorCount[i],
   schedule |-> schedule[i]]

\* getAgentStatus(agentId)
GetAgentStatus(a) == IF agents[a] # NoInst THEN GetStatus(agents[a]) ELSE Null

\* getAllAgentStatuses(): one entry per key of the map
GetAllAgentStatuses == [a \in Tracked |-> GetStatus(agents[a])]

\* the order in which `for (const [agentId, agent] of this.agents)` visits
\* the keys: the order of their first insertion, which is the order of the
\* configuration lists
IdOrder == << "monitor-agent", "worker" >>

\* shutdown(): the try/catch around `await agent.stop()`
ShutdownCatches_none == FALSE

ShutdownCatches == TRUE

\* shutdown(): `this.agents.clear()`
ClearedMap_kept(m) == m

ClearedMap(m) == [a \in AgentIds |-> NoInst]

\* positions of IdOrder whose instance raises in stop()
StopRaisesAt ==
  { p \in 1..Len(IdOrder) :
      /\ agents[IdOrder[p]] # NoInst
      /\ ~StopIsNoop(agents[IdOrder[p]])
      /\ stopFails[agents[IdOrder[p]]] }

\* positions of IdOrder that the loop of shutdown() reaches
ShutdownReaches ==
  IF ShutdownCatches \/ StopRaisesAt = {}
    THEN 1..Len(IdOrder)
    ELSE 1..(CHOOSE p \in StopRaisesAt : \A q \in StopRaisesAt : p <= q)

\* shutdown(): stop() on every tracked instance, then agents.clear() and
\* isRunning = false.  stop() of a BaseAgent has no suspension point, so the
\* whole loop is one slice.
Shutdown ==
  LET stopped == { i \in TrackedInst :
                     /\ \E p \in ShutdownReaches : agents[IdOrder[p]] = i
                     /\ ~StopIsNoop(i)
                     /\ ~stopFails[i] }
      completes == ShutdownCatches \/ StopRaisesAt = {}
  IN /\ activeTriggers' = [i \in Inst |->
            IF i \in stopped THEN TriggersAfterStop(i) ELSE activeTriggers[i]]
     /\ task' = [i \in Inst |-> IF i \in stopped THEN Null ELSE task[i]]
     /\ isRunning' = [i \in Inst |-> IF i \in stopped THEN FALSE ELSE isRunning[i]]
     /\ agents' = IF completes THEN ClearedMap(agents) ELSE agents
     /\ managerIsRunning' = IF completes THEN FALSE ELSE managerIsRunning
     /\ lastOp' = Op("shutdown", NoInst, "none", StopRaisesAt # {},
                     IF completes THEN "ok" ELSE "raised")
     /\ UNCHANGED <<agentConfigs, nInst, id, schedule, body, stopFails, lastRun,
                    runCount, errorCount, inflight, libVars>>

\* the library state while no retry() and no configuration update is made
RetryIdle == [pc |-> "idle"]

\* agents.json: whether the file exists and, if so, the members of its text
Absent == [exists |-> FALSE, text |-> << >>]

FileOf(text) == [exists |-> TRUE, text |-> text]

\* A JavaScript object: its own keys in insertion order, and their values.
\* The file's text is the sequence of its "key": value members.
EmptyObject == [keys |-> << >>, val |-> << >>]

\* the registry before initialize(): nothing discovered, nothing loaded
RegistryIdle == [catalog |-> << >>, errors |-> 0, persisted |-> EmptyObject]

\* DataProcessorAgent constructor: batchSize defaulted, nothing processed
ProcessorIdle ==
  [pc |-> "idle", batchSize |-> DefaultBatchSize, files |-> << >>,
   bad |-> {}, batches |-> << >>, i |-> 0, next |-> 0, processedCount |-> 0]

\* FileWatcherAgent constructor: no watcher, an empty event log
WatcherIdle ==
  [watchPaths |-> << >>, existing |-> {}, fileExtensions |-> {},
   watchers |-> << >>, open |-> {}, opened |-> 0, fileEvents |-> << >>,
   seen |-> 0, processed |-> 0]

\* ApiMonitorAgent constructor: no failure counted, no check in flight
MonitorIdle ==
  [pc |-> "idle", endpoints |-> << >>, alertWebhook |-> FALSE,
   consecutiveFailures |-> << >>, pending |-> {}, runs |-> 0, alerts |-> 0]

SubclassIdle ==
  /\ processor = ProcessorIdle
  /\ watcher = WatcherIdle
  /\ monitor = MonitorIdle

LibIdle ==
  /\ retry = RetryIdle
  /\ configFile = Absent
  /\ requests = << >>
  /\ registry = RegistryIdle
  /\ SubclassIdle

Init ==
  /\ agentConfigs \in ConfigLists
  /\ agents = [a \in AgentIds |-> NoInst]
  /\ managerIsRunning = FALSE
  /\ nInst = 0
  /\ id = [i \in Inst |-> Null]
  /\ schedule = [i \in Inst |-> FALSE]
  /\ body = [i \in Inst |-> "ok"]
  /\ stopFails = [i \in Inst |-> FALSE]
  /\ FreshFields
  /\ LibIdle
  /\ lastOp = Op("new", NoInst, "none", FALSE, "ok")

Next ==
  \/ Initialize
  \/ LoadAgents
  \/ Shutdown
  \/ \E a \in AgentIds : StartAgent(a) \/ StopAgent(a) \/ RunAgentNow(a)
  \/ \E i \in Inst : Fire(i) \/ \E o \in Origins : ExecuteEnd(i, o)

Spec == Init /\ [][Next]_vars

(* ------------------- the manager with its status accessors ------------ *)
\* a status query and the value it returned
Answer(op, a, v) ==
  [op |-> op, inst |-> NoInst, origin |-> "none", threw |-> FALSE,
   out |-> "ok", arg |-> a, value |-> v]

\* GET /api/agents/:id -> getAgentStatus(id)
QueryAgentStatus(a) ==
  /\ lastOp' = Answer("getAgentStatus", a, GetAgentStatus(a))
  /\ UNCHANGED <<agentVars, managerVars, libVars>>

\* GET /api/agents -> getAllAgentStatuses()
QueryAllAgentStatuses ==
  /\ lastOp' = Answer("getAllAgentStatuses", Null, GetAllAgentStatuses)
  /\ UNCHANGED <<agentVars, managerVars, libVars>>

\* the deployments the status accessors are exercised on
StatusConfigLists ==
  { << Config("monitor-agent", TRUE, "throws"), Config("worker", FALSE, "ok") >>,
    << Config("monitor-agent", FALSE, "throws") >> }

InitStatus ==
  /\ Init
  /\ agentConfigs \in StatusConfigLists

NextStatus ==
  \/ Next
  \/ QueryAllAgentStatuses
  \/ \E a \in AgentIds : QueryAgentStatus(a)

SpecStatus == InitStatus /\ [][NextStatus]_vars

(* ----------------------- one instance, driven directly ---------------- *)
InitAgent ==
  /\ agentConfigs = << >>
  /\ agents = [a \in AgentIds |-> NoInst]
  /\ managerIsRunning = FALSE
  /\ nInst = 1
  /\ id = [i \in Inst |-> IF i = 1 THEN "monitor-agent" ELSE Null]
  /\ \E s \in BOOLEAN : schedule = [i \in Inst |-> IF i = 1 THEN s ELSE FALSE]
  /\ \E b \in BodyKinds : body = [i \in Inst |-> IF i = 1 THEN b ELSE "ok"]
  /\ stopFails = [i \in Inst |-> FALSE]
  /\ FreshFields
  /\ LibIdle
  /\ lastOp = Op("new", 1, "none", FALSE, "ok")

NextAgent ==
  \E i \in Inst :
    \/ Start(i)
    \/ Stop(i)
    \/ Fire(i)
    \/ Execute(i)
    \/ \E o \in Origins : ExecuteEnd(i, o)

SpecAgent == InitAgent /\ [][NextAgent]_vars

(* ---------------------- claims on one instance ------------------------ *)
Did(op, i) == lastOp'.op = op /\ lastOp'.inst = i

SameAgentFields(i) ==
  /\ isRunning'[i] = isRunning[i]
  /\ task'[i] = task[i]
  /\ activeTriggers'[i] = activeTriggers[i]
  /\ runCount'[i] = runCount[i]
  /\ errorCount'[i] = errorCount[i]
  /\ lastRun'[i] = lastRun[i]
  /\ inflight'[i] = inflight[i]

AlwaysThrows(i) == i \in Constructed /\ schedule[i] /\ body[i] = "throws"

\* C1: scheduled-failure isolation.  For a scheduled instance whose body
\* throws on every invocation, every firing starts the body and adds 1 to
\* runCount, the end of every such execution adds 1 to errorCount and
\* execute() resolves (no error escapes), and neither step touches
\* isRunning, task or the registered trigger; so every run that has ended
\* is counted as an error and a Running instance keeps its trigger.
C1_ScheduledFailureIsolation ==
  [][\A i \in Inst : AlwaysThrows(i) =>
       /\ Did("fire", i) =>
            /\ isRunning[i]
            /\ runCount'[i] = runCount[i] + 1
            /\ inflight'[i]["cron"] = inflight[i]["cron"] + 1
            /\ errorCount'[i] = errorCount[i]
            /\ isRunning'[i] /\ task'[i] = "cron" /\ activeTriggers'[i] = 1
       /\ (Did("executeEnd", i) /\ lastOp'.origin = "cron") =>
            /\ lastOp'.threw
            /\ errorCount'[i] = errorCount[i] + 1
            /\ runCount'[i] = runCount[i]
            /\ lastOp'.out = "resolved"
            /\ isRunning'[i] = isRunning[i]
            /\ task'[i] = task[i]
            /\ activeTriggers'[i] = activeTriggers[i]
       /\ errorCount'[i] + InFlight(i)' = runCount'[i]
       /\ isRunning'[i] => activeTriggers'[i] = 1
    ]_vars

C1_Witness ==
  \E i \in Inst :
    /\ AlwaysThrows(i) /\ isRunning[i] /\ activeTriggers[i] = 1
    /\ errorCount[i] >= 2 /\ runCount[i] = MaxRuns
    /\ lastOp = OpEnd(i, "cron", TRUE, "resolved", 1)

\* C3: stop() on a Running scheduled instance releases the trigger before
\* it returns (task is null, no task of the instance is left active), and a
\* scheduled firing only ever happens on an instance that is Running and
\* holds its task: none between stop() and the next start().
C3_NoFiringAfterStop ==
  [][\A i \in Inst :
       /\ Did("fire", i) => (isRunning[i] /\ task[i] # Null)
       /\ (Did("stop", i) /\ isRunning[i]) =>
            /\ task'[i] = Null
            /\ activeTriggers'[i] = 0
            /\ ~isRunning'[i]
            /\ runCount'[i] = runCount[i]
    ]_vars

C3_Witness ==
  \E i \in Inst :
    /\ schedule[i] /\ runCount[i] >= 1 /\ InFlight(i) >= 1
    /\ lastOp = Op("stop", i, "none", FALSE, "stopped")

\* C4: start() on a Running instance is a no-op: state stays Running, no
\* second trigger, no execute(), task/runCount/errorCount/lastRun unchanged.
C4_StartIdempotent ==
  [][\A i \in Inst : (Did("start", i) /\ isRunning[i]) =>
       /\ SameAgentFields(i)
       /\ isRunning'[i]
       /\ lastOp'.out = "noop"
    ]_vars

C4_Witness ==
  \E i \in Inst :
    /\ lastOp = Op("start", i, "none", FALSE, "noop")
    /\ schedule[i] /\ task[i] = "cron" /\ activeTriggers[i] = 1

\* C5: stop() on an instance that is not Running (never started or already
\* stopped) returns through the warning branch, without raising, and changes
\* no field of the instance.
C5_StopIdempotent ==
  [][\A i \in Inst : (Did("stop", i) /\ ~isRunning[i]) =>
       /\ SameAgentFields(i)
       /\ lastOp'.out = "noop"
    ]_vars

C5_Witness ==
  \E i \in Inst :
    /\ lastOp = Op("stop", i, "none", FALSE, "noop")
    /\ ~isRunning[i] /\ runCount[i] >= 1

\* C6: an instance never has more than one active recurring trigger, and a
\* non-null task implies that the instance is Running.
C6_AtMostOneTrigger ==
  \A i \in Inst :
    /\ activeTriggers[i] <= 1
    /\ task[i] # Null => isRunning[i]

C6_Witness ==
  \E i \in Inst :
    /\ activeTriggers[i] = 1 /\ task[i] = "cron"
    /\ InFlight(i) = 2 /\ inflight[i]["manual"] = 1
    /\ lastOp.op = "fire"

C8_RunOnceStart ==
  [][\A i \in Constructed : ~schedule[i] =>
       /\ (Did("start", i) /\ ~isRunning[i]) =>
            /\ runCount'[i] = runCount[i] + 1
            /\ inflight'[i]["start"] = inflight[i]["start"] + 1
            /\ task'[i] = Null /\ activeTriggers'[i] = 0
       /\ (Did("executeEnd", i) /\ lastOp'.origin = "start") =>
            /\ isRunning'[i]
            /\ task'[i] = Null /\ activeTriggers'[i] = 0
            /\ runCount'[i] = runCount[i]
       /\ runCount'[i] # runCount[i] =>
            /\ runCount'[i] = runCount[i] + 1
            /\ lastOp'.inst = i
            /\ lastOp'.op \in {"start", "execute", "runAgentNow"}
       /\ ~Did("fire", i)
    ]_vars

C8_Witness ==
  \E i \in Constructed :
    /\ ~schedule[i] /\ isRunning[i] /\ runCount[i] = 1 /\ task[i] = Null
    /\ body[i] = "throws"
    /\ lastOp = OpEnd(i, "start", TRUE, "resolved", 1)

\* C9 as stated: at most one execute() of an instance is in flight at any
\* time.
C9_AtMostOneInFlight ==
  \A i \in Inst : InFlight(i) <= 1


(* ------------------------ claims on the manager ----------------------- *)
\* C2 as stated: a manual run of a tracked agent whose body throws ends
\* rejected with the body's error, so that the dashboard answers 500, with
\* runCount and errorCount each one higher.
C2_ManualRunPropagates ==
  (lastOp.op = "executeEnd" /\ lastOp.origin = "manual" /\ lastOp.threw) =>
    /\ lastOp.out = "rejected"
    /\ RunRouteStatus(lastOp.out) = 500

\* C10 as stated: when loadAgents() has completed, every stored instance is
\* Running and every stored instance with a schedule holds an active
\* trigger.
C10_LoadAgentsStartsAll ==
  lastOp.op = "loadAgents" =>
    \A a \in Tracked :
      /\ isRunning[agents[a]]
      /\ schedule[agents[a]] => activeTriggers[agents[a]] = 1

C12_EndToEndRunCounts ==
  (/\ lastOp.op = "loadAgents"
   /\ Tracked = AgentIds
   /\ schedule[agents["monitor-agent"]]
   /\ ~schedule[agents["worker"]]) =>
     /\ runCount[agents["worker"]] = 1
     /\ runCount[agents["monitor-agent"]] = 0

\* C13: after shutdown() the map is empty, getAllAgentStatuses() is empty
\* and the manager is not running; shutdown() did not raise, and a second
\* shutdown() finds nothing to stop and nothing to clear, so it leaves this
\* state as it is.
C13_ShutdownComplete ==
  lastOp.op = "shutdown" =>
    /\ lastOp.out = "ok"
    /\ Tracked = {}
    /\ DOMAIN GetAllAgentStatuses = {}
    /\ ~managerIsRunning
    /\ StopRaisesAt = {}
    /\ { i \in TrackedInst : ~StopIsNoop(i) } = {}
    /\ ClearedMap(agents) = agents

C13_Witness ==
  /\ lastOp = Op("shutdown", NoInst, "none", FALSE, "ok")
  /\ nInst = 2
  /\ \E i \in Constructed :
       schedule[i] /\ runCount[i] >= 1 /\ ~isRunning[i] /\ task[i] = Null

\* C14: shutdown() is best-effort: also when stop() of a tracked instance
\* raises, shutdown() does not raise, every other tracked instance has been
\* stopped, the map is cleared and the manager is marked not running.
C14_ShutdownBestEffort ==
  [][lastOp'.op = "shutdown" =>
       /\ lastOp'.out = "ok"
       /\ \A a \in AgentIds : agents'[a] = NoInst
       /\ ~managerIsRunning'
       /\ \A i \in TrackedInst :
            ~stopFails[i] =>
               (~isRunning'[i] /\ task'[i] = Null /\ activeTriggers'[i] = 0)
       /\ \A i \in Inst : runCount'[i] = runCount[i]
    ]_vars

C14_Witness ==
  /\ lastOp = Op("shutdown", NoInst, "none", TRUE, "ok")
  /\ Tracked = {}
  /\ \E i, j \in Constructed :
       /\ stopFails[i] /\ isRunning[i]
       /\ ~stopFails[j] /\ runCount[j] >= 1 /\ ~isRunning[j]

\* C15: startAgent / stopAgent of an id that is not in the map resolve
\* without raising and change nothing; with a known id the step is the
\* start() / stop() of that very instance: the map and every other instance
\* are left as they were.
C15_StartStopAgentFrame ==
  [][/\ lastOp'.op \in {"startAgent", "stopAgent"} =>
          /\ lastOp'.out = "absent"
          /\ UNCHANGED <<agentVars, managerVars>>
     /\ \A i \in Inst : (Did("start", i) \/ Did("stop", i)) =>
          /\ i \in TrackedInst
          /\ UNCHANGED managerVars
          /\ \A j \in Inst \ {i} : SameAgentFields(j)
    ]_vars

C15_Witness ==
  /\ lastOp = Op("stopAgent", NoInst, "none", FALSE, "absent")
  /\ Tracked = {"monitor-agent"}
  /\ isRunning[agents["monitor-agent"]]

\* the projection getStatus() is to give of instance i, field by field
IsStatusOf(v, i) ==
  /\ v.id = id[i]
  /\ v.isRunning = isRunning[i]
  /\ v.lastRun = lastRun[i]
  /\ v.runCount = runCount[i]
  /\ v.errorCount = errorCount[i]
  /\ v.schedule = schedule[i]

\* C16: the status accessors are read-only (no variable of the manager or
\* of an instance changes); getAllAgentStatuses() has exactly one entry per
\* tracked id, which is that instance's getStatus() projection;
\* getAgentStatus(id) is that projection for a tracked id and null otherwise.
C16_StatusReadOnly ==
  [][/\ lastOp'.op \in {"getAgentStatus", "getAllAgentStatuses"} =>
          UNCHANGED <<agentVars, managerVars, libVars>>
     /\ lastOp'.op = "getAllAgentStatuses" =>
          /\ DOMAIN lastOp'.value = Tracked
          /\ \A a \in Tracked : IsStatusOf(lastOp'.value[a], agents[a])
     /\ lastOp'.op = "getAgentStatus" =>
          IF agents[lastOp'.arg] = NoInst
            THEN lastOp'.value = Null
            ELSE IsStatusOf(lastOp'.value, agents[lastOp'.arg])
    ]_vars

C16_Witness ==
  /\ lastOp.op = "getAllAgentStatuses"
  /\ DOMAIN lastOp.value = AgentIds
  /\ lastOp.value["monitor-agent"].runCount = 2
  /\ lastOp.value["monitor-agent"].errorCount = 1
  /\ lastOp.value["worker"].isRunning

(* --------------------------- BaseAgent.retry -------------------------- *)
\* largest maxRetries argument tried
MaxMaxRetries == 4

\* the defaults of the parameters of retry(operation, maxRetries, delay)
DefaultMaxRetries == 3
DefaultDelay == 1000

\* base delays tried, in milliseconds
Delays == {0, 1, DefaultDelay}

\* the engine while only the helper is exercised: nothing constructed
EngineIdle ==
  /\ agentConfigs = << >>
  /\ agents = [a \in AgentIds |-> NoInst]
  /\ managerIsRunning = FALSE
  /\ nInst = 0
  /\ id = [i \in Inst |-> Null]
  /\ schedule = [i \in Inst |-> FALSE]
  /\ body = [i \in Inst |-> "ok"]
  /\ stopFails = [i \in Inst |-> FALSE]
  /\ FreshFields

\* `if (i === maxRetries - 1) throw error`
IsLastAttempt_offByOne(i, maxRetries) == i = maxRetries

IsLastAttempt(i, maxRetries) == i = maxRetries - 1

\* `delay * Math.pow(2, i)`
Backoff_flat(delay, i) == delay

Backoff(delay, i) == delay * 2^i

\* the loop test `i < maxRetries`; falling out of the loop ends the function
\* with no return statement, so the promise resolves to undefined
LoopTest(r) ==
  IF r.i < r.maxRetries
    THEN [r EXCEPT !.pc = "attempt"]
    ELSE [r EXCEPT !.pc = "done", !.result = "undefined"]

\* retry(operation, maxRetries, delay) is entered
RetryCall ==
  /\ retry.pc = "called"
  /\ retry' = LoopTest(retry)
  /\ lastOp' = Op("retry", NoInst, "none", FALSE, "entered")
  /\ UNCHANGED <<agentVars, managerVars, configFile, requests, registry, subVars>>

\* `return await operation()` and, when it rejects, the catch block.  The
\* outcome of the operation is the environment's choice; outcomes records
\* it per invocation, in order.
RetryAttempt ==
  /\ retry.pc = "attempt"
  /\ \E ok \in BOOLEAN :
       LET r == [retry EXCEPT !.calls = @ + 1, !.outcomes = Append(@, ok)]
       IN  /\ retry' =
                IF ok
                  THEN [r EXCEPT !.pc = "done", !.result = "value",
                                 !.of = r.calls]
                  ELSE IF IsLastAttempt(r.i, r.maxRetries)
                    THEN [r EXCEPT !.pc = "done", !.result = "raised",
                                   !.of = r.calls]
                    ELSE [r EXCEPT !.pc = "sleeping",
                                   !.slept = Append(@, Backoff(r.delay, r.i))]
           /\ lastOp' = Op("retry", NoInst, "none", ~ok, "attempt")
  /\ UNCHANGED <<agentVars, managerVars, configFile, requests, registry, subVars>>

\* the timer of sleep() expires: `i++` and the loop test
RetryWake ==
  /\ retry.pc = "sleeping"
  /\ retry' = LoopTest([retry EXCEPT !.i = @ + 1])
  /\ lastOp' = Op("retry", NoInst, "none", FALSE, "woke")
  /\ UNCHANGED <<agentVars, managerVars, configFile, requests, registry, subVars>>

InitRetry ==
  /\ EngineIdle
  /\ SubclassIdle
  /\ configFile = Absent
  /\ requests = << >>
  /\ registry = RegistryIdle
  /\ \E m \in 0..MaxMaxRetries, d \in Delays :
       retry = [pc |-> "called", maxRetries |-> m, delay |-> d, i |-> 0,
                calls |-> 0, outcomes |-> << >>, slept |-> << >>,
                result |-> "pending", of |-> 0]
  /\ lastOp = Op("new", NoInst, "none", FALSE, "ok")

NextRetry == RetryCall \/ RetryAttempt \/ RetryWake

SpecRetry == InitRetry /\ [][NextRetry]_vars

(* ------------------------- claims on retry() -------------------------- *)
\* how a finished retry() with at least one invocation must have ended:
\* the value of the first success with nothing invoked after it, or, when
\* every one of the maxRetries invocations failed, the last one's error
RetryEndedProperly ==
  /\ retry.calls = Len(retry.outcomes)
  /\ retry.calls >= 1
  /\ retry.calls <= retry.maxRetries
  /\ \A k \in 1..(retry.calls - 1) : ~retry.outcomes[k]
  /\ IF retry.outcomes[retry.calls]
       THEN retry.result = "value" /\ retry.of = retry.calls
       ELSE /\ retry.calls = retry.maxRetries
            /\ retry.result = "raised"
            /\ retry.of = retry.maxRetries

\* C17 as stated: for every non-negative maxRetries, retry() invokes the
\* operation at least once and at most maxRetries times, resolves with the
\* first success without invoking again, and raises the last error when all
\* maxRetries invocations fail.
C17_RetryBounded ==
  retry.pc = "done" => RetryEndedProperly

\* C17 amended: the above for maxRetries >= 1; with maxRetries = 0 the
\* operation is never invoked and retry() resolves to undefined, raising
\* nothing.
C17_RetryBoundedFromOne ==
  retry.pc = "done" =>
    IF retry.maxRetries >= 1
      THEN RetryEndedProperly
      ELSE /\ retry.calls = 0
           /\ retry.outcomes = << >>
           /\ retry.result = "undefined"

C17_Witness ==
  /\ retry.pc = "done"
  /\ retry.maxRetries = DefaultMaxRetries
  /\ retry.result = "raised"
  /\ retry.calls = DefaultMaxRetries

\* C18: the wait requested after the i-th failed invocation (i from 0) is
\* delay * 2^i, every wait is twice the one before it, and no wait follows
\* a success or the final failed invocation.
C18_ExponentialBackoff ==
  retry.pc # "idle" =>
    /\ \A k \in 1..Len(retry.slept) : retry.slept[k] = retry.delay * 2^(k - 1)
    /\ \A k \in 2..Len(retry.slept) : retry.slept[k] = 2 * retry.slept[k - 1]
    /\ Len(retry.slept) =
         IF retry.pc = "done" /\ retry.calls >= 1
           THEN retry.calls - 1
           ELSE retry.calls

C18_Witness ==
  /\ retry.pc = "done"
  /\ retry.result = "raised"
  /\ retry.delay = DefaultDelay
  /\ Len(retry.slept) = 3
  /\ retry.slept[3] = 4 * DefaultDelay


(* ------------------ Dashboard: the configuration store ---------------- *)
\* configuration updates served together
MaxRequests == 2

\* what createAgentFromTemplate falls back to for a falsy field
DefaultSchedule == "*/5 * * * *"
DefaultTimeout == 30000
DefaultRetries == 3

\* `name` of req.body, and the agent names already in the file
Names == {"alpha", "beta"}
StoredNames == Names \cup {"gamma"}

\* `config` of req.body: its schedule ("" is falsy) and timeout (0 is falsy)
Bodies == [schedule : {"", "0 * * * *"}, timeout : {0, 5000}]

\* the key `${agentName}-agent`
KeyOf(name) == <<name, "-agent">>

AllKeys == {KeyOf(n) : n \in StoredNames}

\* the object literal createAgentFromTemplate passes to updateAgentConfig
BuildConfig(b) ==
  [enabled  |-> TRUE,
   schedule |-> IF b.schedule = "" THEN DefaultSchedule ELSE b.schedule,
   timeout  |-> IF b.timeout = 0 THEN DefaultTimeout ELSE b.timeout,
   retries  |-> DefaultRetries,
   config   |-> "{}"]

\* `configData[key] = value`: an existing key keeps its place
SetEntry(obj, k, v) ==
  IF k \in DOMAIN obj.val
    THEN [obj EXCEPT !.val[k] = v]
    ELSE [keys |-> Append(obj.keys, k),
          val  |-> [x \in (DOMAIN obj.val) \cup {k} |->
                      IF x = k THEN v ELSE obj.val[x]]]

\* JSON.parse of an object text: members are assigned left to right
RECURSIVE ParseMembers(_, _)
ParseMembers(text, n) ==
  IF n = 0 THEN EmptyObject
  ELSE SetEntry(ParseMembers(text, n - 1), text[n][1], text[n][2])

Parse(text) == ParseMembers(text, Len(text))

\* JSON.stringify(configData, null, 2): one member per own key, in order
Stringify(obj) == [n \in 1..Len(obj.keys) |-> <<obj.keys[n], obj.val[obj.keys[n]]>>]

\* `let configData = {}; if (fs.existsSync(configPath)) configData = JSON.parse(...)`
ReadStore_empty(file) == EmptyObject

ReadStore(file) == IF file.exists THEN Parse(file.text) ELSE EmptyObject

\* whether updateAgentConfig gives up control between its read and its
\* write: existsSync, readFileSync and writeFileSync are all synchronous
UpdateSuspends_afterRead == TRUE

UpdateSuspends == FALSE

\* POST /api/agents/create up to the return of updateAgentConfig.  The
\* second branch is the continuation of an update that gave up control
\* after its read.
PostCreate(r) ==
  /\ r \in DOMAIN requests
  /\ requests[r].pc \in {"pending", "read"}
  /\ LET q == requests[r]
         data == IF q.pc = "pending"
                   THEN SetEntry(ReadStore(configFile), KeyOf(q.name),
                                 BuildConfig(q.body))
                   ELSE q.data
     IN  IF q.pc = "pending" /\ UpdateSuspends
           THEN /\ requests' = [requests EXCEPT ![r].pc = "read",
                                                ![r].data = data]
                /\ configFile' = configFile
                /\ lastOp' = Op("updateAgentConfig", r, "none", FALSE, "read")
           ELSE /\ requests' = [requests EXCEPT ![r].pc = "done",
                                                ![r].data = data]
                /\ configFile' = FileOf(Stringify(data))
                /\ lastOp' = Op("updateAgentConfig", r, "none", FALSE, "written")
  /\ UNCHANGED <<agentVars, managerVars, retry, registry, subVars>>

\* what agents.json holds before the requests arrive
OldConfig == BuildConfig([schedule |-> "", timeout |-> 0])

InitialFiles ==
  {Absent,
   FileOf(<< >>),
   FileOf(<< <<KeyOf("alpha"), OldConfig>>, <<KeyOf("gamma"), OldConfig>> >>)}

InitStore ==
  /\ EngineIdle
  /\ SubclassIdle
  /\ retry = RetryIdle
  /\ registry = RegistryIdle
  /\ configFile \in InitialFiles
  /\ requests \in [1..MaxRequests ->
                     [name : Names, body : Bodies, pc : {"pending"},
                      data : {EmptyObject}]]
  /\ lastOp = Op("new", NoInst, "none", FALSE, "ok")

NextStore == \E r \in 1..MaxRequests : PostCreate(r)

SpecStore == InitStore /\ [][NextStore]_vars

(* -------------------- claims on the configuration store --------------- *)
Missing == [missing |-> TRUE]

\* the value a reader of the file finds under key k
EntryOf(file, k) ==
  IF ~file.exists THEN Missing
  ELSE LET at == {n \in 1..Len(file.text) : file.text[n][1] = k}
       IN  IF at = {} THEN Missing
           ELSE file.text[CHOOSE n \in at : \A m \in at : m <= n][2]

\* C19: an update of one agent's configuration leaves a file in which that
\* agent's entry is the submitted configuration and every other agent's
\* entry has exactly its prior value (absent entries stay absent).
C19_ReadWholeWriteWhole ==
  [][(lastOp'.op = "updateAgentConfig" /\ lastOp'.out = "written") =>
       LET q == requests[lastOp'.inst]
       IN  /\ configFile'.exists
           /\ \A n, m \in 1..Len(configFile'.text) :
                configFile'.text[n][1] = configFile'.text[m][1] => n = m
           /\ EntryOf(configFile', KeyOf(q.name)) = BuildConfig(q.body)
           /\ \A k \in AllKeys \ {KeyOf(q.name)} :
                EntryOf(configFile', k) = EntryOf(configFile, k)
    ]_vars

C19_Witness ==
  /\ lastOp.op = "updateAgentConfig"
  /\ lastOp.out = "written"
  /\ configFile.exists
  /\ Len(configFile.text) = 3
  /\ EntryOf(configFile, KeyOf("gamma")) = OldConfig
  /\ EntryOf(configFile, KeyOf("alpha")) # OldConfig
  /\ EntryOf(configFile, KeyOf("beta")) # Missing

AllDone == \A r \in DOMAIN requests : requests[r].pc = "done"

\* C20: once all the concurrent updates have completed, every agent named
\* by one of them has an entry, the entry is in full the configuration one
\* of the updates of that name submitted, and the update that completed
\* last finds its own configuration (last write wins).
C20_NoLostUpdate ==
  (requests # << >> /\ AllDone) =>
    /\ \A r \in DOMAIN requests :
         \E q \in DOMAIN requests :
           /\ requests[q].name = requests[r].name
           /\ EntryOf(configFile, KeyOf(requests[r].name)) =
                BuildConfig(requests[q].body)
    /\ EntryOf(configFile, KeyOf(requests[lastOp.inst].name)) =
         BuildConfig(requests[lastOp.inst].body)

C20_Witness ==
  /\ AllDone
  /\ Len(requests) >= 2
  /\ requests[1].name = "alpha"
  /\ requests[2].name = "beta"
  /\ configFile.exists
  /\ EntryOf(configFile, KeyOf("alpha")) = BuildConfig(requests[1].body)
  /\ EntryOf(configFile, KeyOf("beta")) = BuildConfig(requests[2].body)
  /\ requests[1].body # requests[2].body
  /\ lastOp.inst = 1


(* ------------------------ claims on the dashboard --------------------- *)
\* C21 as stated: a status lookup, start, stop or run addressed to an id the
\* manager does not track is answered 404, and a request for a tracked id
\* is never answered 404.
C21_NotFoundIs404 ==
  [][/\ lastOp'.op = "getAgentStatus" =>
          (GetRouteStatus(lastOp'.arg) = 404 <=> agents[lastOp'.arg] = NoInst)
     /\ (lastOp'.op \in {"startAgent", "stopAgent"} /\ lastOp'.inst = NoInst) =>
          StartStopRouteStatus(lastOp'.out) = 404
     /\ (lastOp'.op = "runAgentNow" /\ lastOp'.inst = NoInst) =>
          RunRouteStatus(lastOp'.out) = 404
     /\ lastOp'.op \in {"start", "stop"} =>
          StartStopRouteStatus(lastOp'.out) # 404
    ]_vars

(* ------------------- further claims on one instance ------------------- *)
\* C25: a step that begins an execute() of an instance sets lastRun and
\* raises runCount by exactly 1 with the body then in flight and errorCount
\* untouched; the step that ends it raises errorCount by exactly 1 and
\* invokes handleError exactly once when the body failed, and does neither
\* when it succeeded; no other step touches the three fields.
C25_ExecutionBookkeeping ==
  [][\A i \in Inst :
       LET begins == lastOp'.inst = i /\ lastOp'.out = "awaiting"
           ends   == Did("executeEnd", i)
       IN  /\ begins =>
                /\ runCount'[i] = runCount[i] + 1
                /\ lastRun'[i] = runCount'[i]
                /\ errorCount'[i] = errorCount[i]
                /\ InFlight(i)' = InFlight(i) + 1
           /\ ends =>
                /\ runCount'[i] = runCount[i]
                /\ lastRun'[i] = lastRun[i]
                /\ InFlight(i)' = InFlight(i) - 1
                /\ IF body[i] = "throws"
                     THEN errorCount'[i] = errorCount[i] + 1 /\ lastOp'.handled = 1
                     ELSE errorCount'[i] = errorCount[i] /\ lastOp'.handled = 0
           /\ ~(begins \/ ends) =>
                /\ runCount'[i] = runCount[i]
                /\ errorCount'[i] = errorCount[i]
                /\ lastRun'[i] = lastRun[i]
    ]_vars

C25_Witness ==
  /\ lastOp.op = "executeEnd"
  /\ lastOp.inst = 1
  /\ lastOp.handled = 1
  /\ runCount[1] = 3
  /\ errorCount[1] = 2
  /\ InFlight(1) = 1


\* C27 as stated: stop() on a Running instance with an execute() in flight
\* returns with the instance Stopped and the body still in flight; when
\* that body then ends, its outcome is recorded (errorCount and
\* handleError when it failed) and the instance is still Stopped.
C27_StopDoesNotWait ==
  [][\A i \in Inst :
       /\ (Did("stop", i) /\ lastOp'.out = "stopped") =>
            /\ ~isRunning'[i]
            /\ inflight'[i] = inflight[i]
       /\ (/\ lastOp.op = "stop" /\ lastOp.inst = i /\ lastOp.out = "stopped"
           /\ Did("executeEnd", i)) =>
            /\ errorCount'[i] = errorCount[i] + ErrorIncrement(body[i] = "throws")
            /\ lastOp'.handled = HandleErrorCalls(body[i] = "throws")
            /\ ~isRunning'[i]
    ]_vars


\* C28: a start() of an instance that is not Running (stopped before, or
\* fresh) makes a scheduled instance Running with exactly one active
\* trigger and no execute(), and makes an unscheduled instance perform
\* exactly one execute(), Running once that body has ended; neither start()
\* nor the stop() before it resets runCount or errorCount.
C28_Restart ==
  [][\A i \in Inst :
       /\ (Did("start", i) /\ ~isRunning[i] /\ schedule[i]) =>
            /\ isRunning'[i]
            /\ task'[i] # Null
            /\ activeTriggers'[i] = 1
            /\ runCount'[i] = runCount[i]
            /\ errorCount'[i] = errorCount[i]
            /\ inflight'[i] = inflight[i]
       /\ (Did("start", i) /\ ~isRunning[i] /\ ~schedule[i]) =>
            /\ runCount'[i] = runCount[i] + 1
            /\ errorCount'[i] = errorCount[i]
            /\ inflight'[i]["start"] = inflight[i]["start"] + 1
            /\ activeTriggers'[i] = 0
       /\ (Did("executeEnd", i) /\ lastOp'.origin = "start") => isRunning'[i]
       /\ Did("stop", i) =>
            /\ runCount'[i] = runCount[i]
            /\ errorCount'[i] = errorCount[i]
    ]_vars

\* a scheduled instance that ran, failed, was stopped and is started again
C28_Witness ==
  /\ lastOp = Op("start", 1, "none", FALSE, "started")
  /\ schedule[1]
  /\ isRunning[1]
  /\ activeTriggers[1] = 1
  /\ InFlight(1) = 1
  /\ runCount[1] = 3
  /\ errorCount[1] = 2

\* C30 as stated: a start() of an unscheduled instance made while an
\* earlier start() of it is still awaiting its execute() performs no
\* execute() of its own: runCount does not change.
C30_OverlappingStarts ==
  [][\A i \in Inst :
       (Did("start", i) /\ ~schedule[i] /\ inflight[i]["start"] > 0) =>
         /\ runCount'[i] = runCount[i]
         /\ inflight'[i] = inflight[i]
    ]_vars

\* C32: a run-once start whose body throws.  When the execute() awaited by
\* start() of an instance without a schedule ends with the body having
\* thrown, nothing is raised to the caller of start(): the promise resolves,
\* handleError has been called once, errorCount is one higher, runCount is
\* as start() left it, and the instance is Running; on a fresh instance
\* that is runCount = 1 and errorCount = 1.
C32_FailedRunOnceStart ==
  [][\A i \in Constructed :
       (Did("executeEnd", i) /\ lastOp'.origin = "start" /\ ~schedule[i]
          /\ body[i] = "throws") =>
         /\ lastOp'.threw /\ lastOp'.out = "resolved"
         /\ lastOp'.handled = 1
         /\ errorCount'[i] = errorCount[i] + 1
         /\ runCount'[i] = runCount[i]
         /\ isRunning'[i]
         /\ runCount[i] = 1 => errorCount'[i] = 1
    ]_vars

C32_Witness ==
  /\ ~schedule[1] /\ body[1] = "throws"
  /\ lastOp.op = "executeEnd" /\ lastOp.origin = "start" /\ lastOp.out = "resolved"
  /\ isRunning[1] /\ runCount[1] = 1 /\ errorCount[1] = 1 /\ InFlight(1) = 0

(* -------------------- further claims on the manager ------------------- *)
\* C26 as stated: the entry of an instance that is Running or holds an
\* active trigger leaves the manager's map only through shutdown(), and
\* when loadAgents() has run (again) every instance that is Running or
\* holds an active trigger is an entry of the map.
C26_RunningIsTracked ==
  [][/\ \A i \in TrackedInst :
          ((isRunning[i] \/ activeTriggers[i] > 0) /\ i \notin TrackedInst')
            => lastOp'.op = "shutdown"
     /\ lastOp'.op = "loadAgents" =>
          \A i \in Inst :
            (isRunning'[i] \/ activeTriggers'[i] > 0) => i \in TrackedInst'
    ]_vars

\* C29 as stated: when stop() of a tracked instance, or shutdown(), ran
\* while a start() of the instance was awaiting its immediate execute(),
\* then once that start() has completed too the instance is not Running
\* and holds no trigger.
C29_ShutdownVersusStart ==
  [][\A i \in Inst :
       (/\ \/ lastOp.op = "stop" /\ lastOp.inst = i
           \/ lastOp.op = "shutdown" /\ nInst = 1
        /\ inflight[i]["start"] = 1
        /\ Did("executeEnd", i)
        /\ lastOp'.origin = "start") =>
         /\ ~isRunning'[i]
         /\ activeTriggers'[i] = 0
    ]_vars

(* --------------------------- Agent Registry --------------------------- *)
\* candidate agent-type sources one discovery pass may enumerate
MaxCandidates == 3

\* a candidate either resolves into a descriptor for its type name or is
\* malformed
Candidates == [name : AgentIds, wellFormed : BOOLEAN]

CandidateLists == UNION { [1..n -> Candidates] : n \in 0..MaxCandidates }

\* a configuration is a function from the names of the fields it has to
\* their values
NoFields == [f \in {} |-> 0]

\* the persisted stores the registry is run on, keyed by agent name; the
\* entry of "ghost" matches no agent type
RegistryFiles ==
  { Absent,
    FileOf(<< <<"monitor-agent", [schedule |-> "A", x |-> 1]>>,
              <<"ghost", [enabled |-> TRUE, schedule |-> "A"]>>,
              <<"worker", [enabled |-> FALSE, schedule |-> "B"]>> >>) }

\* overrideConfig arguments of createInstance
Overrides ==
  { NoFields, [x |-> 2], [schedule |-> "B"], [schedule |-> "B", x |-> 2, y |-> 3] }

\* discover(): "on failure, logs and continues"
DiscoverContinues_abort == FALSE

DiscoverContinues == TRUE

\* the candidates a discovery pass gets to
Processed(cands) ==
  LET bad == { k \in 1..Len(cands) : ~cands[k].wellFormed }
  IN  IF DiscoverContinues \/ bad = {}
        THEN 1..Len(cands)
        ELSE 1..(CHOOSE k \in bad : \A j \in bad : k <= j)

\* the catalog a pass builds: one descriptor per type name, that of the
\* last candidate that resolved to the name
Discovered(cands) ==
  LET good == { k \in Processed(cands) : cands[k].wellFormed }
  IN  [n \in { cands[k].name : k \in good } |->
         [source |-> CHOOSE k \in good :
                       /\ cands[k].name = n
                       /\ \A j \in good : cands[j].name = n => j <= k]]

\* "overridden field by field": a field of the override wins, every other
\* field is kept
MergeConfig_replace(base, override) == override

MergeConfig(base, override) ==
  [f \in (DOMAIN base) \cup (DOMAIN override) |->
     IF f \in DOMAIN override THEN override[f] ELSE base[f]]

\* the persistedConfig attached to a name, none when the store has no entry
PersistedConfig(name) ==
  IF name \in DOMAIN registry.persisted.val
    THEN registry.persisted.val[name]
    ELSE NoFields

\* a registry operation, its argument(s) and what it returned
RegOp(op, threw, out, arg, value) ==
  [op |-> op, inst |-> NoInst, origin |-> "none", threw |-> threw, out |-> out,
   arg |-> arg, value |-> value]

\* discover(): a fresh catalog replaces the prior one
Discover ==
  \E cands \in CandidateLists :
    LET bad == { k \in Processed(cands) : ~cands[k].wellFormed }
        aborted == Processed(cands) # 1..Len(cands)
    IN  /\ registry' = [registry EXCEPT
                          !.catalog = IF aborted THEN @ ELSE Discovered(cands),
                          !.errors = Cardinality(bad)]
        /\ lastOp' = RegOp("discover", aborted,
                           IF aborted THEN "raised" ELSE "ok", cands,
                           Cardinality(Processed(cands) \ bad))
        /\ UNCHANGED <<agentVars, managerVars, retry, configFile, requests, subVars>>

\* loadConfiguration(): the whole store is read into memory
LoadConfiguration ==
  /\ registry' = [registry EXCEPT !.persisted = ReadStore(configFile)]
  /\ lastOp' = RegOp("loadConfiguration", FALSE, "ok", Null, Null)
  /\ UNCHANGED <<agentVars, managerVars, retry, configFile, requests, subVars>>

\* createInstance(name, overrideConfig): NotFound for a name that is not in
\* the catalog, otherwise the instance the factory builds from the merged
\* configuration
CreateInstance(name, override) ==
  /\ IF name \notin DOMAIN registry.catalog
       THEN lastOp' = RegOp("createInstance", TRUE, "notfound",
                            [name |-> name, override |-> override], NoFields)
       ELSE lastOp' = RegOp("createInstance", FALSE, "ok",
                            [name |-> name, override |-> override],
                            MergeConfig(PersistedConfig(name), override))
  /\ UNCHANGED <<agentVars, managerVars, libVars>>

InitRegistry ==
  /\ EngineIdle
  /\ SubclassIdle
  /\ retry = RetryIdle
  /\ requests = << >>
  /\ registry = RegistryIdle
  /\ configFile \in RegistryFiles
  /\ lastOp = Op("new", NoInst, "none", FALSE, "ok")

NextRegistry ==
  \/ Discover
  \/ LoadConfiguration
  \/ \E name \in AgentIds, override \in Overrides : CreateInstance(name, override)

SpecRegistry == InitRegistry /\ [][NextRegistry]_vars


(* ------------------ enabling and disabling an agent ------------------- *)
\* names a configuration operation may be given
StoreNames == AgentIds \cup {"ghost"}

\* updateConfiguration(name, partialConfig): merge into the in-memory
\* configuration of the name, then persist the entire store
UpdateConfiguration(name, partial) ==
  LET store == SetEntry(registry.persisted, name,
                        MergeConfig(PersistedConfig(name), partial))
  IN  /\ registry' = [registry EXCEPT !.persisted = store]
      /\ configFile' = FileOf(Stringify(store))

\* AgentManager.enableAgent / disableAgent: delegation to the registry and
\* a log entry; the instances are not touched
EnableAgent(name) ==
  /\ UpdateConfiguration(name, [enabled |-> TRUE])
  /\ lastOp' = RegOp("enableAgent", FALSE, "ok", name, Null)
  /\ UNCHANGED <<agentVars, managerVars, retry, requests, subVars>>

DisableAgent(name) ==
  /\ UpdateConfiguration(name, [enabled |-> FALSE])
  /\ lastOp' = RegOp("disableAgent", FALSE, "ok", name, Null)
  /\ UNCHANGED <<agentVars, managerVars, retry, requests, subVars>>

\* the deployments the switches are exercised on: scheduled agents, so
\* that a started one holds a trigger
ToggleConfigLists ==
  { << Config("monitor-agent", TRUE, "ok") >>,
    << Config("monitor-agent", TRUE, "ok"), Config("worker", TRUE, "ok") >> }

\* after initialize(): the store has been loaded into the registry
InitToggle ==
  /\ agentConfigs \in ToggleConfigLists
  /\ agents = [a \in AgentIds |-> NoInst]
  /\ managerIsRunning = TRUE
  /\ nInst = 0
  /\ id = [i \in Inst |-> Null]
  /\ schedule = [i \in Inst |-> FALSE]
  /\ body = [i \in Inst |-> "ok"]
  /\ stopFails = [i \in Inst |-> FALSE]
  /\ FreshFields
  /\ SubclassIdle
  /\ retry = RetryIdle
  /\ requests = << >>
  /\ configFile \in RegistryFiles
  /\ registry = [RegistryIdle EXCEPT !.persisted = ReadStore(configFile)]
  /\ lastOp = Op("initialize", NoInst, "none", FALSE, "ok")

NextToggle ==
  \/ LoadAgents
  \/ \E a \in AgentIds : StartAgent(a) \/ StopAgent(a)
  \/ \E name \in StoreNames : EnableAgent(name) \/ DisableAgent(name)

SpecToggle == InitToggle /\ [][NextToggle]_vars

C23_DiscoveryIsolation ==
  [][lastOp'.op = "discover" =>
       LET cands == lastOp'.arg
           good == { k \in 1..Len(cands) : cands[k].wellFormed }
           bad  == { k \in 1..Len(cands) : ~cands[k].wellFormed }
           cat  == registry'.catalog
       IN  /\ lastOp'.out = "ok"
           /\ lastOp'.value = Len(cands) - Cardinality(bad)
           /\ registry'.errors = Cardinality(bad)
           /\ DOMAIN cat = { cands[k].name : k \in good }
           /\ \A n \in DOMAIN cat :
                /\ cat[n].source \in good
                /\ cands[cat[n].source].name = n
                /\ \A k \in good : cands[k].name = n => k <= cat[n].source
           /\ (\A j, k \in good : cands[j].name = cands[k].name => j = k) =>
                Cardinality(DOMAIN cat) = Len(cands) - Cardinality(bad)
    ]_vars

C23_Witness ==
  /\ lastOp.op = "discover"
  /\ Len(lastOp.arg) = 3
  /\ lastOp.arg[1].wellFormed
  /\ ~lastOp.arg[2].wellFormed
  /\ lastOp.arg[3].wellFormed
  /\ lastOp.value = 2
  /\ registry.errors = 1
  /\ DOMAIN registry.catalog = AgentIds

ConfiguredBatchSizes == {0, 1, 2, -1}

\* constructor: `this.batchSize = config.batchSize || 100`
BatchSizeOf(configured) ==
  IF configured = 0 THEN DefaultBatchSize ELSE configured

\* the directory listing: n distinct files, named 1..n in listing order
FileList(n) == [k \in 1..n |-> k]

Min(a, b) == IF a < b THEN a ELSE b

Max(a, b) == IF a < b THEN b ELSE a

\* Array.prototype.slice(start, end): a negative index counts from the end,
\* both are clamped to the array
SliceIndex(x, len) == IF x < 0 THEN Max(len + x, 0) ELSE Min(x, len)

Slice(s, start, end) ==
  LET from == SliceIndex(start, Len(s))
      to   == SliceIndex(end, Len(s))
  IN  IF from < to THEN SubSeq(s, from + 1, to) ELSE << >>

\* iterations of the loop of createBatches after which it is given up: a
\* loop that ends does so within Len(files) + 1 tests
LoopFuel == MaxFiles + 2

\* createBatches: `for (let i = 0; i < files.length; i += batchSize)
\*                   batches.push(files.slice(i, i + batchSize))`
RECURSIVE BatchLoop(_, _, _, _, _)
BatchLoop(files, batchSize, i, batches, fuel) ==
  IF ~(i < Len(files))
    THEN [returned |-> TRUE, batches |-> batches, i |-> i]
    ELSE IF fuel = 0
      THEN [returned |-> FALSE, batches |-> batches, i |-> i]
      ELSE BatchLoop(files, batchSize, i + batchSize,
                     Append(batches, Slice(files, i, i + batchSize)), fuel - 1)

CreateBatches(files, batchSize) == BatchLoop(files, batchSize, 0, << >>, LoopFuel)

\* processBatch: one settled result per file of the batch, `processedCount++`
\* for a fulfilled one
Fulfilled(batch, bad) == Cardinality({k \in 1..Len(batch) : batch[k] \notin bad})

\* processBatch: `this.errorCount++` for a rejected one
Rejected(batch, bad) == Cardinality({k \in 1..Len(batch) : batch[k] \in bad})

\* execute() up to `await this.run()`, and run() up to the listing it awaits
ProcessorExecute ==
  /\ processor.pc = "idle"
  /\ runCount[1] < MaxRuns
  /\ runCount' = [runCount EXCEPT ![1] = @ + 1]
  /\ lastRun' = [lastRun EXCEPT ![1] = runCount[1] + 1]
  /\ inflight' = [inflight EXCEPT ![1]["manual"] = @ + 1]
  /\ processor' = [processor EXCEPT !.pc = "listing"]
  /\ lastOp' = Op("execute", 1, "manual", FALSE, "awaiting")
  /\ UNCHANGED <<id, schedule, body, stopFails, isRunning, task, errorCount,
                 activeTriggers, managerVars, retry, configFile, requests,
                 registry, watcher, monitor>>

\* getFilesToProcess() answered: `if (files.length === 0) return`, else
\* createBatches, which does not return when its loop does not end
ProcessorListed(n, bad) ==
  /\ processor.pc = "listing"
  /\ LET files == FileList(n)
         made  == CreateBatches(files, processor.batchSize)
     IN  /\ processor' =
              [processor EXCEPT
                 !.files = files,
                 !.bad = bad,
                 !.batches = IF n = 0 THEN << >> ELSE made.batches,
                 !.i = IF n = 0 THEN 0 ELSE made.i,
                 !.next = 1,
                 !.pc = IF n = 0 THEN "returning"
                        ELSE IF ~made.returned THEN "looping"
                        ELSE "batch"]
         /\ lastOp' = Op("createBatches", 1, "manual", FALSE,
                         IF n = 0 THEN "nofiles"
                         ELSE IF made.returned THEN "returned" ELSE "looping")
  /\ UNCHANGED <<agentVars, managerVars, retry, configFile, requests, registry,
                 watcher, monitor>>

\* getFilesToProcess() raised (readdir failed, not ENOENT): run() rethrows,
\* the catch block of execute() counts it
ProcessorListingFails ==
  /\ processor.pc = "listing"
  /\ processor' = [processor EXCEPT !.pc = "idle"]
  /\ errorCount' = [errorCount EXCEPT ![1] = @ + ErrorIncrement(TRUE)]
  /\ inflight' = [inflight EXCEPT ![1]["manual"] = @ - 1]
  /\ lastOp' = OpEnd(1, "manual", TRUE,
                     IF ExecuteRethrows(TRUE) THEN "rejected" ELSE "resolved",
                     HandleErrorCalls(TRUE))
  /\ UNCHANGED <<id, schedule, body, stopFails, isRunning, task, lastRun,
                 runCount, activeTriggers, managerVars, retry, configFile,
                 requests, registry, watcher, monitor>>

\* `await this.processBatch(batch)` and the sleep that follows it
ProcessBatch ==
  /\ processor.pc = "batch"
  /\ LET batch == processor.batches[processor.next]
     IN  /\ processor' =
              [processor EXCEPT
                 !.processedCount = @ + Fulfilled(batch, processor.bad),
                 !.next = @ + 1,
                 !.pc = IF processor.next = Len(processor.batches)
                          THEN "returning" ELSE "batch"]
         /\ errorCount' = [errorCount EXCEPT ![1] = @ + Rejected(batch, processor.bad)]
  /\ lastOp' = Op("processBatch", 1, "manual", FALSE, "ok")
  /\ UNCHANGED <<id, schedule, body, stopFails, isRunning, task, lastRun,
                 runCount, activeTriggers, inflight, managerVars, retry,
                 configFile, requests, registry, watcher, monitor>>

\* run() returns: the rest of execute()
ProcessorReturns ==
  /\ processor.pc = "returning"
  /\ processor' = [processor EXCEPT !.pc = "idle"]
  /\ inflight' = [inflight EXCEPT ![1]["manual"] = @ - 1]
  /\ lastOp' = OpEnd(1, "manual", FALSE, "resolved", HandleErrorCalls(FALSE))
  /\ UNCHANGED <<id, schedule, body, stopFails, isRunning, task, lastRun,
                 runCount, errorCount, activeTriggers, managerVars, retry,
                 configFile, requests, registry, watcher, monitor>>

\* one DataProcessorAgent, constructed from its configuration
InitProcessor ==
  /\ agentConfigs = << >>
  /\ agents = [a \in AgentIds |-> NoInst]
  /\ managerIsRunning = FALSE
  /\ nInst = 1
  /\ id = [i \in Inst |-> IF i = 1 THEN "worker" ELSE Null]
  /\ schedule = [i \in Inst |-> FALSE]
  /\ body = [i \in Inst |-> "ok"]
  /\ stopFails = [i \in Inst |-> FALSE]
  /\ FreshFields
  /\ retry = RetryIdle
  /\ configFile = Absent
  /\ requests = << >>
  /\ registry = RegistryIdle
  /\ watcher = WatcherIdle
  /\ monitor = MonitorIdle
  /\ \E configured \in ConfiguredBatchSizes :
       processor = [ProcessorIdle EXCEPT !.batchSize = BatchSizeOf(configured)]
  /\ lastOp = Op("new", 1, "none", FALSE, "ok")

NextProcessor ==
  \/ ProcessorExecute
  \/ \E n \in 0..MaxFiles : \E bad \in SUBSET (1..n) : ProcessorListed(n, bad)
  \/ ProcessorListingFails
  \/ ProcessBatch
  \/ ProcessorReturns

SpecProcessor == InitProcessor /\ [][NextProcessor]_vars

(* -------------------- claims on the DataProcessorAgent ---------------- *)
\* C31 as stated: in every reachable state of an instance driven through
\* execute(), errorCount <= runCount, and neither counter ever decreases.
C31_ErrorsWithinRuns ==
  [][\A i \in Inst :
       /\ errorCount'[i] <= runCount'[i]
       /\ errorCount'[i] >= errorCount[i]
       /\ runCount'[i] >= runCount[i]
    ]_vars

\* the batches in order, put end to end
RECURSIVE Concatenated(_)
Concatenated(batches) ==
  IF batches = << >> THEN << >>
  ELSE Head(batches) \o Concatenated(Tail(batches))

\* C37 as stated: createBatches(files, batchSize) returns, for every file
\* list and every configured batchSize, and what it returns is a partition
\* of files into consecutive batches: put end to end they are files, every
\* batch has between 1 and batchSize elements and every batch but the last
\* has exactly batchSize; and processBatch makes processedCount +
\* errorCount grow by the length of the batch.
C37_CreateBatchesPartitions ==
  [][/\ (Did("createBatches", 1) /\ lastOp'.out # "nofiles") =>
          LET batches == processor'.batches
          IN  /\ lastOp'.out = "returned"
              /\ Concatenated(batches) = processor'.files
              /\ \A k \in 1..Len(batches) :
                   /\ Len(batches[k]) >= 1
                   /\ Len(batches[k]) <= processor.batchSize
                   /\ k < Len(batches) => Len(batches[k]) = processor.batchSize
     /\ Did("processBatch", 1) =>
          processor'.processedCount + errorCount'[1] =
            processor.processedCount + errorCount[1]
              + Len(processor.batches[processor.next])
    ]_vars

(* --------------------------- FileWatcherAgent ------------------------- *)
\* config.watchPaths: the default `['./uploads']`, a path listed twice, two
\* paths
WatchPathLists ==
  { << "./uploads" >>, << "./uploads", "./uploads" >>, << "./uploads", "./in" >> }

\* the sets of watch paths that exist on disk (fs.existsSync)
ExistingPaths == { {}, {"./uploads"}, {"./uploads", "./in"} }

\* config.fileExtensions: the default `['.txt', '.json']`, and a list
\* written in upper case
ExtensionLists == { {".txt", ".json"}, {".TXT"} }

\* the files events are about: path.extname() of each
Files == { [name |-> "a", ext |-> ".txt"], [name |-> "b", ext |-> ".TXT"],
           [name |-> "c", ext |-> ".log"] }

EventTypes == {"add", "unlink"}

\* String.prototype.toLowerCase on an extension
ToLowerCase(ext) == IF ext = ".TXT" THEN ".txt" ELSE ext

\* shouldProcessFile: `this.fileExtensions.includes(extname.toLowerCase())`
ShouldProcessFile(file) == ToLowerCase(file.ext) \in watcher.fileExtensions

\* handleFileEvent: `if (length > maxEvents) fileEvents = slice(0, maxEvents)`
Truncated_never(log) == log

Truncated(log) == IF Len(log) > MaxEvents THEN SubSeq(log, 1, MaxEvents) ELSE log

\* start(): `this.isRunning = true`, whatever startWatching did
RunningAfterStart_ifWatching(w) == DOMAIN w.watchers # {}

RunningAfterStart(w) == TRUE

\* Map.prototype.set on the watchers map
MapSet(m, key, value) ==
  [k \in DOMAIN m \cup {key} |-> IF k = key THEN value ELSE m[k]]

\* startWatching(watchPath): nothing for a path that does not exist, else a
\* new chokidar watcher, stored under the path
StartWatching(w, watchPath) ==
  IF watchPath \notin w.existing
    THEN w
    ELSE LET handle == [path |-> watchPath, n |-> w.opened + 1]
         IN  [w EXCEPT !.opened = @ + 1,
                       !.open = @ \cup {handle},
                       !.watchers = MapSet(@, watchPath, handle)]

\* start(): `for (const watchPath of this.watchPaths) await startWatching`
RECURSIVE WatchAll(_, _)
WatchAll(w, paths) ==
  IF paths = << >> THEN w
  ELSE WatchAll(StartWatching(w, Head(paths)), Tail(paths))

\* FileWatcherAgent.start(): it overrides BaseAgent.start() and never calls it
WatcherStart ==
  /\ IF isRunning[1]
       THEN /\ lastOp' = Op("start", 1, "none", FALSE, "noop")
            /\ UNCHANGED <<watcher, isRunning>>
       ELSE /\ watcher.opened + Len(watcher.watchPaths) <= MaxOpened
            /\ watcher' = WatchAll(watcher, watcher.watchPaths)
            /\ isRunning' = [isRunning EXCEPT ![1] = RunningAfterStart(watcher')]
            /\ lastOp' = Op("start", 1, "none", FALSE, "started")
  /\ UNCHANGED <<id, schedule, body, stopFails, task, lastRun, runCount,
                 errorCount, activeTriggers, inflight, managerVars, retry,
                 configFile, requests, registry, processor, monitor>>

\* FileWatcherAgent.stop(): closes the watchers of the map, clears the map
WatcherStop ==
  /\ IF ~isRunning[1]
       THEN /\ lastOp' = Op("stop", 1, "none", FALSE, "noop")
            /\ UNCHANGED <<watcher, isRunning>>
       ELSE /\ watcher' =
                 [watcher EXCEPT
                    !.open = @ \ { watcher.watchers[p] : p \in DOMAIN watcher.watchers },
                    !.watchers = << >>]
            /\ isRunning' = [isRunning EXCEPT ![1] = FALSE]
            /\ lastOp' = Op("stop", 1, "none", FALSE, "stopped")
  /\ UNCHANGED <<id, schedule, body, stopFails, task, lastRun, runCount,
                 errorCount, activeTriggers, inflight, managerVars, retry,
                 configFile, requests, registry, processor, monitor>>

\* an open watcher emits add / change / unlink: handleFileEvent
FileEvent(type, file) ==
  /\ watcher.open # {}
  /\ watcher.seen < MaxSeen
  /\ LET event == [type |-> type, path |-> file, timestamp |-> watcher.seen + 1]
     IN  IF ShouldProcessFile(file)
           THEN /\ watcher' =
                     [watcher EXCEPT
                        !.seen = @ + 1,
                        !.fileEvents = Truncated(<< event >> \o @),
                        !.processed = @ + 1]
                /\ lastOp' = Answer("fileEvent", event, "logged")
           ELSE /\ watcher' = [watcher EXCEPT !.seen = @ + 1]
                /\ lastOp' = Answer("fileEvent", event, "ignored")
  /\ UNCHANGED <<agentVars, managerVars, retry, configFile, requests, registry,
                 processor, monitor>>

\* one FileWatcherAgent, constructed from its configuration
InitWatcher ==
  /\ agentConfigs = << >>
  /\ agents = [a \in AgentIds |-> NoInst]
  /\ managerIsRunning = FALSE
  /\ nInst = 1
  /\ id = [i \in Inst |-> IF i = 1 THEN "worker" ELSE Null]
  /\ \E s \in BOOLEAN : schedule = [i \in Inst |-> IF i = 1 THEN s ELSE FALSE]
  /\ body = [i \in Inst |-> "ok"]
  /\ stopFails = [i \in Inst |-> FALSE]
  /\ FreshFields
  /\ retry = RetryIdle
  /\ configFile = Absent
  /\ requests = << >>
  /\ registry = RegistryIdle
  /\ processor = ProcessorIdle
  /\ monitor = MonitorIdle
  /\ \E paths \in WatchPathLists, existing \in ExistingPaths,
        exts \in ExtensionLists :
       watcher = [WatcherIdle EXCEPT !.watchPaths = paths,
                                     !.existing = existing,
                                     !.fileExtensions = exts]
  /\ lastOp = Op("new", 1, "none", FALSE, "ok")

NextWatcher ==
  \/ WatcherStart
  \/ WatcherStop
  \/ \E type \in EventTypes, file \in Files : FileEvent(type, file)

SpecWatcher == InitWatcher /\ [][NextWatcher]_vars

(* --------------------- claims on the FileWatcherAgent ----------------- *)
\* C33: a FileWatcherAgent never runs through the execution engine.  Over
\* every sequence of start(), stop() and file events, with or without a
\* schedule, no trigger is registered (task stays null), no execute() is
\* begun, runCount and errorCount stay 0; and a start() that was not a
\* no-op leaves the instance Running, also when no watch path exists.
C33_WatcherBypassesEngine ==
  /\ task[1] = Null /\ activeTriggers[1] = 0
  /\ InFlight(1) = 0
  /\ runCount[1] = 0 /\ errorCount[1] = 0
  /\ lastOp.op = "start" => isRunning[1]

C33_Witness ==
  /\ schedule[1]
  /\ lastOp.op = "start" /\ lastOp.out = "started"
  /\ watcher.existing = {} /\ watcher.open = {}
  /\ isRunning[1] /\ task[1] = Null

\* the open watchers on one path
OpenOn(p) == { h \in watcher.open : h.path = p }

\* C34 as stated: when stop() has returned on a Running FileWatcherAgent
\* every watcher opened by the start() before it is closed and the watchers
\* map is empty; and while Running the agent holds at most one open watcher
\* per watch path.
C34_WatchersReleased ==
  /\ (lastOp.op = "stop" /\ lastOp.out = "stopped") =>
       /\ watcher.open = {}
       /\ DOMAIN watcher.watchers = {}
  /\ isRunning[1] =>
       \A k \in 1..Len(watcher.watchPaths) :
         Cardinality(OpenOn(watcher.watchPaths[k])) <= 1

Endpoint(name, url) == [kind |-> "object", name |-> name, url |-> url]

\* a null entry of config.endpoints
NullEndpoint == [kind |-> "null", name |-> << >>, url |-> << >>]

\* config.endpoints: one endpoint, two endpoints, one endpoint listed twice,
\* two endpoints whose names and urls differ but give one key, a null entry
EndpointLists ==
  { << Endpoint(<<"a">>, <<"u">>) >>,
    << Endpoint(<<"a">>, <<"u">>), Endpoint(<<"b">>, <<"u">>) >>,
    << Endpoint(<<"a">>, <<"u">>), Endpoint(<<"a">>, <<"u">>) >>,
    << Endpoint(<<"a", "-", "b">>, <<"u">>), Endpoint(<<"a">>, <<"b", "-", "u">>) >>,
    << NullEndpoint, Endpoint(<<"a">>, <<"u">>) >> }

\* monitorEndpoint: endpointKey = `${endpoint.name}-${endpoint.url}`
EndpointKey(endpoint) == endpoint.name \o << "-" >> \o endpoint.url

\* `this.consecutiveFailures.get(endpointKey) || 0`
FailuresOf(failures, key) ==
  IF key \in DOMAIN failures THEN failures[key] ELSE 0

\* how the request of a check ends: a response with the expected status, a
\* response with another status, an error (timeout, refused connection)
CheckOutcomes == {"healthy", "unhealthy", "error"}

\* monitorEndpoint: `if (failures >= this.alertThreshold)`
ShouldHandleFailure_once(failures) == failures = AlertThreshold

ShouldHandleFailure(failures) == failures >= AlertThreshold

\* handleEndpointFailure: `if (this.alertWebhook) await this.sendAlert(...)`
AlertSent(handled) == handled /\ monitor.alertWebhook

\* run(): one monitorEndpoint per entry, all started before any is awaited;
\* the call made for a null entry is rejected at once, reading its name
MonitorRun ==
  /\ monitor.pc = "idle"
  /\ monitor.runs < MaxCycles
  /\ monitor' =
       [monitor EXCEPT
          !.pc = "awaiting",
          !.runs = @ + 1,
          !.pending = { k \in 1..Len(monitor.endpoints) :
                          monitor.endpoints[k].kind = "object" }]
  /\ lastOp' = Op("run", NoInst, "none", FALSE, "awaiting")
  /\ UNCHANGED <<agentVars, managerVars, retry, configFile, requests, registry,
                 processor, watcher>>

\* the request of one check ends: the rest of monitorEndpoint
CheckSettles(k, outcome) ==
  /\ monitor.pc = "awaiting"
  /\ k \in monitor.pending
  /\ LET key      == EndpointKey(monitor.endpoints[k])
         failures == IF outcome = "error"
                       THEN FailuresOf(monitor.consecutiveFailures, key) + 1
                       ELSE 0
         handled  == outcome = "error" /\ ShouldHandleFailure(failures)
     IN  /\ monitor' =
              [monitor EXCEPT
                 !.consecutiveFailures = MapSet(@, key, failures),
                 !.pending = @ \ {k},
                 !.alerts = IF AlertSent(handled) THEN @ + 1 ELSE @]
         /\ lastOp' = Answer("monitorEndpoint",
                             [endpoint |-> k, outcome |-> outcome],
                             [handled |-> handled, alerted |-> AlertSent(handled)])
  /\ UNCHANGED <<agentVars, managerVars, retry, configFile, requests, registry,
                 processor, watcher>>

\* `await Promise.allSettled(monitoringPromises)` is over: run() returns
MonitorReturns ==
  /\ monitor.pc = "awaiting"
  /\ monitor.pending = {}
  /\ monitor' = [monitor EXCEPT !.pc = "idle"]
  /\ lastOp' = Op("run", NoInst, "none", FALSE, "resolved")
  /\ UNCHANGED <<agentVars, managerVars, retry, configFile, requests, registry,
                 processor, watcher>>

\* one ApiMonitorAgent, constructed from its configuration
InitMonitor ==
  /\ EngineIdle
  /\ retry = RetryIdle
  /\ configFile = Absent
  /\ requests = << >>
  /\ registry = RegistryIdle
  /\ processor = ProcessorIdle
  /\ watcher = WatcherIdle
  /\ \E endpoints \in EndpointLists, webhook \in BOOLEAN :
       monitor = [MonitorIdle EXCEPT !.endpoints = endpoints,
                                     !.alertWebhook = webhook]
  /\ lastOp = Op("new", NoInst, "none", FALSE, "ok")

NextMonitor ==
  \/ MonitorRun
  \/ \E k \in 1..Len(monitor.endpoints), outcome \in CheckOutcomes :
       CheckSettles(k, outcome)
  \/ MonitorReturns

SpecMonitor == InitMonitor /\ [][NextMonitor]_vars

(* --------------------- claims on the ApiMonitorAgent ------------------ *)
\* C36: failure counting.  A check whose request got a response leaves the
\* counter of its endpoint at 0; a check whose request errored leaves it one
\* higher; no other counter moves; handleEndpointFailure is called in a
\* check exactly when the counter after it is at least 3; an alert is sent
\* exactly when handleEndpointFailure is called and a webhook is configured;
\* and run() always returns normally.
C36_FailureCounting ==
  [][/\ lastOp'.op = "monitorEndpoint" =>
          LET endpoint == monitor.endpoints[lastOp'.arg.endpoint]
              key      == EndpointKey(endpoint)
              before   == FailuresOf(monitor.consecutiveFailures, key)
              after    == FailuresOf(monitor'.consecutiveFailures, key)
          IN  /\ lastOp'.arg.outcome # "error" => after = 0
              /\ lastOp'.arg.outcome = "error" => after = before + 1
              /\ \A other \in DOMAIN monitor.consecutiveFailures \ {key} :
                   monitor'.consecutiveFailures[other] =
                     monitor.consecutiveFailures[other]
              /\ lastOp'.value.handled <=> after >= AlertThreshold
              /\ lastOp'.value.alerted <=>
                   (lastOp'.value.handled /\ monitor.alertWebhook)
              /\ monitor'.alerts =
                   monitor.alerts + (IF lastOp'.value.alerted THEN 1 ELSE 0)
     /\ lastOp'.op = "run" => ~lastOp'.threw /\ lastOp'.out \in {"awaiting", "resolved"}
    ]_vars

C36_Witness ==
  /\ lastOp.op = "monitorEndpoint" /\ lastOp.arg.outcome = "error"
  /\ lastOp.value.handled /\ lastOp.value.alerted
  /\ FailuresOf(monitor.consecutiveFailures,
                EndpointKey(monitor.endpoints[lastOp.arg.endpoint])) > AlertThreshold
  /\ monitor.alerts >= 2

=============================================================================
